---- MODULE Spec2Model ----
(***************************************************************************)
(* Model of deltalake/deltatable.py: class DeltaTable, the reader that     *)
(* rebuilds the file set of a Delta table from _delta_log (a checkpoint    *)
(* pointer, checkpoint files and per-version JSON log files).              *)
(*                                                                         *)
(* Strings (paths, file names) are sequences of one-character strings, so  *)
(* that formatting (f"{v:020}"), globbing, sorting, the \d{20} regular     *)
(* expression and int() are computed as the code computes them.            *)
(***************************************************************************)
EXTENDS Integers, Sequences, FiniteSets, TLC

VARIABLES
    fs,        \* the filesystem under the table root: path -> content (read-only)
    heap,      \* the DeltaTable objects: reference -> object
    handles,   \* the caller's variables: slot -> reference
    res,       \* per object: the last resolution run on it (call, outcome, files read)
    raised     \* the last call, if it raised

vars == <<fs, heap, handles, res, raised>>

----------------------------------------------------------------------------
(* Bounds of the model.                                                    *)

\* The highest version a table of the model has committed.
MaxVersion == 21

\* The highest version the caller asks for.
MaxTarget == 11

\* Positions inside a decade that the model exercises: 0..MaxOffset and the last.
MaxOffset == 1

\* The checkpoint interval hard-coded in the reader (// 10, :019, + 9).
CheckpointInterval == 10

\* Width of the zero-padded version in a log or checkpoint file name.
NameWidth == 20

\* Width of the glob prefix: the version without its last decimal digit.
PrefixWidth == 19

\* Versions 'up to 9 higher than checkpoint' requested on open.
MaxAhead == 9

Offsets == (0..MaxOffset) \cup {CheckpointInterval - 1}

ModelVersions == {v \in 0..MaxVersion : (v % CheckpointInterval) \in Offsets}

\* The versions the caller asks for.
Targets == {v \in ModelVersions : v <= MaxTarget}

\* The versions the two-object caller asks for: the first, one before the
\* first checkpoint and one after it.
SnapshotTargets == {0, MaxOffset, MaxTarget}

----------------------------------------------------------------------------
(* Characters and strings.                                                 *)

DigitChars == <<"0", "1", "2", "3", "4", "5", "6", "7", "8", "9">>

\* The characters that occur in the model's paths, in code-point order.
Alphabet == <<".", "/", "0", "1", "2", "3", "4", "5", "6", "7", "8", "9",
              "A", "B", "_", "a", "c", "d", "e", "g", "h", "i", "j", "k",
              "l", "n", "o", "p", "q", "r", "s", "t", "u">>

\* ord(c)
OrdOf == [c \in {Alphabet[i] : i \in 1..Len(Alphabet)} |->
            CHOOSE i \in 1..Len(Alphabet) : Alphabet[i] = c]

Ord(c) == OrdOf[c]

Digits == {DigitChars[i] : i \in 1..10}

IsDigit(c) == c \in Digits

DigitValueOf == [c \in Digits |-> (CHOOSE i \in 1..10 : DigitChars[i] = c) - 1]

DigitValue(c) == DigitValueOf[c]

\* str(n) for n >= 0
RECURSIVE DecimalDigits(_)
DecimalDigits(n) ==
    IF n < 10 THEN <<DigitChars[n + 1]>>
    ELSE Append(DecimalDigits(n \div 10), DigitChars[(n % 10) + 1])

Zeros(k) == [i \in 1..k |-> "0"]

\* f"{n:0w}": zero-padded to at least w characters
Pad(n, w) == Zeros(w - Len(DecimalDigits(n))) \o DecimalDigits(n)

\* int(s) for a string of decimal digits
RECURSIVE ParseDigits(_, _, _)
ParseDigits(s, i, acc) ==
    IF i > Len(s) THEN acc ELSE ParseDigits(s, i + 1, 10 * acc + DigitValue(s[i]))

MinOf(S) == CHOOSE i \in S : \A j \in S : i <= j

\* leading zeros contribute nothing: the digits are read from the first non-zero one
ParseInt(s) ==
    LET nz == {i \in 1..Len(s) : s[i] # "0"}
    IN  IF nz = {} THEN 0 ELSE ParseDigits(s, MinOf(nz), 0)

StartsWith(s, p) == Len(s) >= Len(p) /\ SubSeq(s, 1, Len(p)) = p

EndsWith(s, p) == Len(s) >= Len(p) /\ SubSeq(s, Len(s) - Len(p) + 1, Len(s)) = p

\* s < t in Python's string order
StrLess(s, t) ==
    LET n == IF Len(s) < Len(t) THEN Len(s) ELSE Len(t)
        diff == {i \in 1..n : s[i] # t[i]}
    IN  IF diff = {} THEN Len(s) < Len(t)
        ELSE LET i == MinOf(diff) IN Ord(s[i]) < Ord(t[i])

\* insertion of x into the sorted list l
RECURSIVE Insert(_, _, _)
Insert(x, l, i) ==
    IF i > Len(l) THEN Append(l, x)
    ELSE IF StrLess(x, l[i]) THEN SubSeq(l, 1, i - 1) \o <<x>> \o SubSeq(l, i, Len(l))
    ELSE Insert(x, l, i + 1)

\* sorted(S) for a set of strings
RECURSIVE Sorted(_)
Sorted(S) ==
    IF S = {} THEN <<>>
    ELSE LET x == CHOOSE y \in S : TRUE
         IN  Insert(x, Sorted(S \ {x}), 1)

\* re.findall(r"(\d{20})", s): the non-overlapping runs of NameWidth digits, left to right
RECURSIVE FindDigitRunsFrom(_, _)
FindDigitRunsFrom(s, i) ==
    LET starts == {j \in i..(Len(s) - NameWidth + 1) :
                      \A k \in j..(j + NameWidth - 1) : IsDigit(s[k])}
    IN  IF starts = {} THEN <<>>
        ELSE LET j == MinOf(starts)
             IN  <<SubSeq(s, j, j + NameWidth - 1)>> \o FindDigitRunsFrom(s, j + NameWidth)

FindDigitRuns(s) == FindDigitRunsFrom(s, 1)

----------------------------------------------------------------------------
(* Paths of the table.                                                     *)

\* self.path
TablePath == <<"t">>

DeltaLogDir == TablePath \o <<"/", "_", "d", "e", "l", "t", "a", "_", "l", "o", "g", "/">>

JsonSuffix == <<".", "j", "s", "o", "n">>

CheckpointSuffix == <<".", "c", "h", "e", "c", "k", "p", "o", "i", "n", "t",
                      ".", "p", "a", "r", "q", "u", "e", "t">>

\* f"{self.path}/_delta_log/_last_checkpoint"
LastCheckpointPath ==
    DeltaLogDir \o <<"_", "l", "a", "s", "t", "_", "c", "h", "e", "c", "k", "p", "o", "i", "n", "t">>

\* f"{self.path}/_delta_log/{v:020}.json"
LogPath(v) == DeltaLogDir \o Pad(v, NameWidth) \o JsonSuffix

\* f"{self.path}/_delta_log/{c:020}.checkpoint.parquet"
CheckpointPath(c) == DeltaLogDir \o Pad(c, NameWidth) \o CheckpointSuffix

\* f"{self.path}/{rel}"
FullPath(rel) == TablePath \o <<"/">> \o rel

\* Relative data-file paths the writers of the table use.
PathA == <<"A">>
PathB == <<"B">>
\* a relative path that spells the full path of PathA
PathTA == TablePath \o <<"/">> \o PathA
\* the data file committed by version v
PartPath(v) == <<"p">> \o DecimalDigits(v)

----------------------------------------------------------------------------
(* File contents.  A log file is a sequence of lines; a line is abstracted *)
(* to what json.loads and the two key tests of the replay see in it.       *)

AddLine(rel) == [kind |-> "add", path |-> rel]
RemoveLine(rel) == [kind |-> "remove", path |-> rel]
\* a record without add or remove (commitInfo, metaData, protocol, txn)
OtherLine == [kind |-> "other", path |-> <<>>]
\* a line json.loads rejects
CorruptLine == [kind |-> "corrupt", path |-> <<>>]

\* What the first commit of a table may hold.
Menu0 == { <<AddLine(PathA)>>,
           <<AddLine(PathA), RemoveLine(PathA)>>,
           <<RemoveLine(PathA)>> }

\* What the second commit may hold.
Menu1 == { <<AddLine(PathB)>>,
           <<RemoveLine(PathA)>>,
           <<RemoveLine(PathTA)>>,
           <<AddLine(PathB), CorruptLine, AddLine(PathA)>> }

\* The log file of version v in a table whose first two commits are s0 and s1:
\* later commits add one data file at the first two versions of a decade and
\* are metadata-only elsewhere.
LogLines(v, s0, s1) ==
    IF v = 0 THEN s0
    ELSE IF v = 1 THEN s1
    ELSE IF (v % CheckpointInterval) \in {0, 1} THEN <<AddLine(PartPath(v))>>
    ELSE <<OtherLine>>

\* The writer's view of the table: the relative paths live after commits 0..v.
RECURSIVE WriterApply(_, _)
WriterApply(live, lines) ==
    IF Len(lines) = 0 THEN live
    ELSE LET l == Head(lines)
             next == IF l.kind = "add" THEN live \cup {l.path}
                     ELSE IF l.kind = "remove" THEN live \ {l.path}
                     ELSE live
         IN  WriterApply(next, Tail(lines))

RECURSIVE WriterLive(_, _, _)
WriterLive(v, s0, s1) ==
    IF v < 0 THEN {}
    ELSE WriterApply(WriterLive(v - 1, s0, s1), LogLines(v, s0, s1))

\* Rows of the checkpoint file of version c: one row without add (protocol /
\* metaData) and one add row per live file.
RECURSIVE AddRows(_)
AddRows(paths) ==
    IF Len(paths) = 0 THEN <<>>
    ELSE <<AddLine(Head(paths))>> \o AddRows(Tail(paths))

CheckpointRows(c, s0, s1) == <<OtherLine>> \o AddRows(Sorted(WriterLive(c, s0, s1)))

NoPointer == 0 - 1

\* The table directory: log files lo..hi, the pointer file when ptr is a
\* version, and the checkpoint files up to ptr (the one at ptr only if cpThere).
MkFs(lo, hi, s0, s1, ptr, cpThere) ==
    LET logPaths == {LogPath(v) : v \in lo..hi}
        cps      == {c \in 1..ptr : c % CheckpointInterval = 0 /\ (c < ptr \/ cpThere)}
        cpPaths  == {CheckpointPath(c) : c \in cps}
        ptrPaths == IF ptr = NoPointer THEN {} ELSE {LastCheckpointPath}
    IN  [p \in logPaths \cup cpPaths \cup ptrPaths |->
            IF p \in logPaths
            THEN [lines |-> LogLines(CHOOSE v \in lo..hi : LogPath(v) = p, s0, s1),
                  version |-> NoPointer]
            ELSE IF p \in cpPaths
            THEN [lines |-> CheckpointRows(CHOOSE c \in cps : CheckpointPath(c) = p, s0, s1),
                  version |-> NoPointer]
            ELSE [lines |-> <<>>, version |-> ptr]]

\* The tables of the model: <<lo, hi, s0, s1, ptr, cpThere>>.
TableShapes ==
    { t \in ({0} \cup {c \in ModelVersions : c % CheckpointInterval = 0})
             \X ({NoPointer} \cup ModelVersions)
             \X Menu0 \X Menu1
             \X ({NoPointer} \cup {c \in ModelVersions : c > 0 /\ c % CheckpointInterval = 0})
             \X BOOLEAN :
        /\ t[5] <= t[2]                               \* the pointer names a committed version
        /\ (t[5] = NoPointer => t[6])
        /\ (t[1] > 0 => (t[1] = t[5] /\ t[6]))        \* logs are cleaned up to a checkpoint
        /\ (t[2] < 0 => t[3] = <<AddLine(PathA)>>)
        /\ (t[2] < 1 => t[4] = <<AddLine(PathB)>>) }

Tables == { MkFs(t[1], t[2], t[3], t[4], t[5], t[6]) : t \in TableShapes }

\* The tables the two-object caller works on: every log is kept, the pointer
\* names the first checkpoint, whose file is there, and the table has grown
\* MaxOffset versions past it.
SmallTables ==
    { MkFs(t[1], t[2], t[3], t[4], t[5], t[6]) :
        t \in { u \in TableShapes : /\ u[1] = 0
                                   /\ u[2] = CheckpointInterval + MaxOffset
                                   /\ u[5] = CheckpointInterval
                                   /\ u[6] } }

\* The tables on which repeated snapshots are taken: as SmallTables, and also
\* with the checkpoint file the pointer names missing.
SnapshotTables ==
    { MkFs(t[1], t[2], t[3], t[4], t[5], t[6]) :
        t \in { u \in TableShapes : /\ u[1] = 0
                                   /\ u[2] = CheckpointInterval + MaxOffset
                                   /\ u[5] = CheckpointInterval } }

\* filesystem.exists(p)
Exists(p) == p \in DOMAIN fs

\* filesystem.glob(prefix + "*" + suffix)
Glob(prefix, suffix) ==
    {p \in DOMAIN fs : /\ Len(p) >= Len(prefix) + Len(suffix)
                       /\ StartsWith(p, prefix)
                       /\ EndsWith(p, suffix)}

----------------------------------------------------------------------------
(* DeltaTable objects.  attrs is the set of instance attributes that have  *)
(* been assigned; a field outside attrs holds a placeholder.               *)

NoObject ==
    [alive |-> FALSE, attrs |-> {}, files |-> {}, checkpoint |-> 0, version |-> 0,
     pyarrow_dataset |-> {}]

\* the object at the entry of __init__, before _as_newest_version
FreshObject == [NoObject EXCEPT !.alive = TRUE]

\* outcome of a method: the object it worked on as the method leaves it, the
\* exception it raised ("none" if it returned), the log versions it read with
\* cat and the checkpoint versions it tried to open
Outcome(obj, err, logs, cps) == [obj |-> obj, err |-> err, logs |-> logs, cps |-> cps]

\* lines 43-46: every row with a non-null add contributes its path
RECURSIVE ApplyCheckpointRows(_, _, _)
ApplyCheckpointRows(files, rows, i) ==
    IF i > Len(rows) THEN files
    ELSE ApplyCheckpointRows(
            IF rows[i].kind = "add" THEN files \cup {FullPath(rows[i].path)} ELSE files,
            rows, i + 1)

\* _apply_from_checkpoint without line 31: the file set is not reset
ApplyFromCheckpointKeepFiles(obj, checkpoint_version) ==
    LET kept == [obj EXCEPT !.attrs = @ \cup {"files", "checkpoint"},
                            !.checkpoint = checkpoint_version]
    IN  IF checkpoint_version = 0 THEN Outcome(kept, "none", <<>>, <<>>)
        ELSE IF ~Exists(CheckpointPath(checkpoint_version))
        THEN Outcome(kept, "FileNotFoundError", <<>>, <<checkpoint_version>>)
        ELSE Outcome([kept EXCEPT !.files =
                         ApplyCheckpointRows(@, fs[CheckpointPath(checkpoint_version)].lines, 1)],
                     "none", <<>>, <<checkpoint_version>>)

\* DeltaTable._apply_from_checkpoint(checkpoint_version)
ApplyFromCheckpoint(obj, checkpoint_version) ==
    LET reset == [obj EXCEPT !.attrs = @ \cup {"files", "checkpoint"},
                             !.files = {},
                             !.checkpoint = checkpoint_version]
    IN  IF checkpoint_version = 0 THEN Outcome(reset, "none", <<>>, <<>>)
        ELSE IF ~Exists(CheckpointPath(checkpoint_version))
        THEN Outcome(reset, "FileNotFoundError", <<>>, <<checkpoint_version>>)
        ELSE Outcome([reset EXCEPT !.files =
                         ApplyCheckpointRows({}, fs[CheckpointPath(checkpoint_version)].lines, 1)],
                     "none", <<>>, <<checkpoint_version>>)

\* lines 74-81: the remove branch of one log line.  The membership test uses
\* the relative path, the removal the full path; set.remove raises KeyError
\* on a missing element.
ApplyRemove(files, remove_file) ==
    IF remove_file \in files
    THEN IF FullPath(remove_file) \in files
         THEN [files |-> files \ {FullPath(remove_file)}, err |-> "none"]
         ELSE [files |-> files, err |-> "KeyError"]
    ELSE [files |-> files, err |-> "none"]

\* a decoder that drops the lines json.loads rejects
ApplyLineSkipCorrupt(files, line) ==
    IF line.kind = "add" THEN [files |-> files \cup {FullPath(line.path)}, err |-> "none"]
    ELSE IF line.kind = "remove" THEN ApplyRemove(files, line.path)
    ELSE [files |-> files, err |-> "none"]

\* lines 69-81: one line of a log file
ApplyLine(files, line) ==
    IF line.kind = "corrupt" THEN [files |-> files, err |-> "JSONDecodeError"]
    ELSE IF line.kind = "add" THEN [files |-> files \cup {FullPath(line.path)}, err |-> "none"]
    ELSE IF line.kind = "remove" THEN ApplyRemove(files, line.path)
    ELSE [files |-> files, err |-> "none"]

\* lines 68-81: the lines of one log file, in order, up to the first exception
RECURSIVE ApplyLines(_, _, _)
ApplyLines(files, lines, i) ==
    IF i > Len(lines) THEN [files |-> files, err |-> "none"]
    ELSE LET r == ApplyLine(files, lines[i])
         IN  IF r.err # "none" THEN r ELSE ApplyLines(r.files, lines, i + 1)

\* a loop that breaks after the first log file, whatever its version
ReachedTargetAtOnce(log_version, version) == TRUE

\* line 83: stop if we have reached the desired version
ReachedTarget(log_version, version) == log_version = version

\* lines 60-84: the loop over the sorted log files, from the i-th on
RECURSIVE ReplayLoop(_, _, _, _, _)
ReplayLoop(obj, log_files, i, version, logs) ==
    IF i > Len(log_files) THEN Outcome(obj, "none", logs, <<>>)
    ELSE LET runs == FindDigitRuns(log_files[i])
         IN  IF Len(runs) = 0 THEN Outcome(obj, "IndexError", logs, <<>>)
             ELSE LET log_version == ParseInt(runs[1])
                      r == ApplyLines(obj.files, fs[log_files[i]].lines, 1)
                      after == [obj EXCEPT !.attrs = @ \cup {"version"},
                                           !.version = log_version,
                                           !.files = r.files]
                      read == Append(logs, log_version)
                  IN  IF r.err # "none" THEN Outcome(after, r.err, read, <<>>)
                      ELSE IF ReachedTarget(log_version, version)
                      THEN Outcome(after, "none", read, <<>>)
                      ELSE ReplayLoop(after, log_files, i + 1, version, read)

\* a glob over every log file of the directory, whatever its decade
GlobAllLogFiles(checkpoint) == Glob(DeltaLogDir, JsonSuffix)

\* lines 55-57: the glob over the decade of self.checkpoint
GlobLogFiles(checkpoint) ==
    Glob(DeltaLogDir \o Pad(checkpoint \div CheckpointInterval, PrefixWidth), JsonSuffix)

\* DeltaTable._apply_partial_logs(version)
ApplyPartialLogs(obj, version) ==
    ReplayLoop(obj, Sorted(GlobLogFiles(obj.checkpoint)), 1, version, <<>>)

\* lines 88-97: the pointer read; FileNotFoundError of cat and of the
\* checkpoint open are both swallowed by the except clause
LoadLastCheckpoint(obj) ==
    IF ~Exists(LastCheckpointPath) THEN Outcome(obj, "none", <<>>, <<>>)
    ELSE LET r == ApplyFromCheckpoint(obj, fs[LastCheckpointPath].version)
         IN  Outcome(r.obj, "none", <<>>, r.cps)

\* DeltaTable._as_newest_version()
AsNewestVersion(obj) ==
    LET c == LoadLastCheckpoint(obj)
    IN  IF "checkpoint" \notin c.obj.attrs
        THEN Outcome(c.obj, "AttributeError", <<>>, c.cps)
        ELSE LET r == ApplyPartialLogs(c.obj, c.obj.checkpoint + MaxAhead)
             IN  Outcome(r.obj, r.err, r.logs, c.cps)

\* lines 21-23 and 142-144: pyarrow_dataset(source=list(self.files), ...)
Publish(obj) ==
    [obj EXCEPT !.attrs = @ \cup {"pyarrow_dataset"}, !.pyarrow_dataset = obj.files]

\* DeltaTable.__init__(path)
Construct ==
    LET r == AsNewestVersion(FreshObject)
    IN  IF r.err # "none" THEN r
        ELSE Outcome(Publish(r.obj), "none", r.logs, r.cps)

\* line 138
NearestCheckpoint(version) == version \div CheckpointInterval

\* lines 140-141 and 148-149: reload from the checkpoint, then replay
Resolve(obj, version) ==
    LET c == ApplyFromCheckpoint(obj, NearestCheckpoint(version))
    IN  IF c.err # "none" THEN c
        ELSE LET r == ApplyPartialLogs(c.obj, version)
             IN  Outcome(r.obj, r.err, r.logs, c.cps)

\* deltaTable = self in place of line 147: the "copy" is the object itself
DeepCopyAliased(hp, self) == [heap |-> hp, ref |-> self]

\* line 147: deepcopy(self): a new object with copies of the attributes of
\* self, at a reference no object occupies
DeepCopy(hp, self) ==
    LET new == MinOf({r \in DOMAIN hp : ~hp[r].alive})
    IN  [heap |-> [hp EXCEPT ![new] = hp[self]], ref |-> new]

\* lines 139-145: self.as_version(version, inplace=True): self is resolved,
\* republished and returned
AsVersionInPlace(hp, self, version) ==
    LET r == Resolve(hp[self], version)
    IN  IF r.err # "none"
        THEN [heap |-> [hp EXCEPT ![self] = r.obj], ref |-> self, out |-> r]
        ELSE [heap |-> [hp EXCEPT ![self] = Publish(r.obj)], ref |-> self, out |-> r]

\* lines 147-151: self.as_version(version, inplace=False): a deep copy of
\* self is resolved and returned
AsVersionCopy(hp, self, version) ==
    LET c == DeepCopy(hp, self)
        r == Resolve(c.heap[c.ref], version)
    IN  [heap |-> [c.heap EXCEPT ![c.ref] = r.obj], ref |-> c.ref, out |-> r]

----------------------------------------------------------------------------
(* The caller: it opens the table once, then calls as_version on the       *)
(* objects it holds.  The object returned by as_version(inplace=False) is  *)
(* kept in slot 1; an object no slot refers to is garbage and is dropped.  *)

Slots == {0, 1}

Refs == {0, 1, 2}

NullRef == 0 - 1

NoCall == [op |-> "none", version |-> 0, err |-> "none", logs |-> <<>>, cps |-> <<>>]

Call(op, version, r) ==
    [op |-> op, version |-> version, err |-> r.err, logs |-> r.logs, cps |-> r.cps]

\* the objects and records that stay once the caller's variables are hd
Collect(f, hd, none) ==
    [r \in Refs |-> IF \E s \in Slots : hd[s] = r THEN f[r] ELSE none]

\* the object the caller sees in slot s
View(s) == IF handles[s] = NullRef THEN NoObject ELSE heap[handles[s]]

\* the record of the last resolution of the object in slot s
Resolution(s) == IF handles[s] = NullRef THEN NoCall ELSE res[handles[s]]

NoHandles ==
    /\ heap = [r \in Refs |-> NoObject]
    /\ handles = [s \in Slots |-> NullRef]
    /\ res = [r \in Refs |-> NoCall]
    /\ raised = NoCall

Init == fs \in SmallTables /\ NoHandles

InitReplay == fs \in Tables /\ NoHandles

InitSnapshots == fs \in SnapshotTables /\ NoHandles

\* handles[0] = DeltaTable(path)
Open ==
    /\ handles[0] = NullRef
    /\ raised.op = "none"
    /\ LET r == Construct
       IN  IF r.err = "none"
           THEN /\ heap' = [heap EXCEPT ![0] = r.obj]
                /\ handles' = [handles EXCEPT ![0] = 0]
                /\ res' = [res EXCEPT ![0] = Call("open", 0, r)]
                /\ raised' = NoCall
           ELSE /\ raised' = Call("open", 0, r)
                /\ UNCHANGED <<heap, handles, res>>
    /\ UNCHANGED fs

\* handles[s].as_version(v, inplace=True)
CallInPlace(s, v) ==
    /\ handles[s] # NullRef
    /\ LET r == AsVersionInPlace(heap, handles[s], v)
       IN  /\ heap' = r.heap
           /\ res' = [res EXCEPT ![r.ref] = Call("as_version", v, r.out)]
           /\ raised' = IF r.out.err = "none" THEN NoCall ELSE Call("as_version", v, r.out)
    /\ UNCHANGED <<fs, handles>>

\* handles[1] = handles[s].as_version(v, inplace=False)
CallCopy(s, v) ==
    /\ handles[s] # NullRef
    /\ LET r == AsVersionCopy(heap, handles[s], v)
           hd == IF r.out.err = "none" THEN [handles EXCEPT ![1] = r.ref] ELSE handles
       IN  /\ handles' = hd
           /\ heap' = Collect(r.heap, hd, NoObject)
           /\ res' = Collect([res EXCEPT ![r.ref] = Call("as_version_copy", v, r.out)],
                             hd, NoCall)
           /\ raised' = IF r.out.err = "none" THEN NoCall
                        ELSE Call("as_version_copy", v, r.out)
    /\ UNCHANGED fs

\* a caller with one object, changed in place
InPlaceFirst == \E v \in Targets : CallInPlace(0, v)

\* a caller that also takes independent snapshots of its first object
InPlace == \E s \in Slots, v \in SnapshotTargets : CallInPlace(s, v)

Copy == \E v \in SnapshotTargets : CallCopy(0, v)

\* a caller that changes its first object in place and keeps the snapshots
\* it takes of it untouched
InPlaceSource == \E v \in SnapshotTargets : CallInPlace(0, v)

Next == Open \/ InPlace \/ Copy

NextReplay == Open \/ InPlaceFirst

Spec == Init /\ [][Next]_vars

SpecReplay == InitReplay /\ [][NextReplay]_vars

NextSnapshots == Open \/ InPlaceSource \/ Copy

SpecSnapshots == InitSnapshots /\ [][NextSnapshots]_vars

----------------------------------------------------------------------------
(* Vocabulary of the properties.                                           *)

LogExists(v) == Exists(LogPath(v))

LogIs(v, lines) == LogExists(v) /\ fs[LogPath(v)].lines = lines

\* every log line decodes and no relative path spells the full path of a data file
CleanLogs ==
    \A p \in DOMAIN fs : \A i \in 1..Len(fs[p].lines) :
        fs[p].lines[i].kind # "corrupt" /\ fs[p].lines[i].path # PathTA

\* the highest version committed in the log
HighestLog == MinOf({v \in 0..MaxVersion : LogExists(v) /\ ~LogExists(v + 1)})

\* the full paths a checkpoint file lists
CheckpointFiles(c) ==
    LET rows == fs[CheckpointPath(c)].lines
    IN  {FullPath(rows[i].path) : i \in {j \in 1..Len(rows) : rows[j].kind = "add"}}

\* the full paths the log file of version v adds
AddedBy(v) ==
    LET lines == fs[LogPath(v)].lines
    IN  {FullPath(lines[i].path) : i \in {j \in 1..Len(lines) : lines[j].kind = "add"}}

CheckpointVersions == {c \in 1..MaxVersion : c % CheckpointInterval = 0}

\* the table has neither a checkpoint pointer nor a checkpoint file
NoCheckpoint ==
    ~Exists(LastCheckpointPath) /\ \A c \in CheckpointVersions : ~Exists(CheckpointPath(c))

\* the caller has called DeltaTable(path)
OpenCalled == handles[0] # NullRef \/ raised.op = "open"

\* the object in slot s was last resolved by as_version(v), in place or as a copy
ResolvedAt(s, v) ==
    /\ handles[s] # NullRef
    /\ Resolution(s).op \in {"as_version", "as_version_copy"}
    /\ Resolution(s).version = v

----------------------------------------------------------------------------
(* C1: remove-after-add.  In a table whose log is add(A) at version 0 and  *)
(* remove(A) at version 1, as_version(1) yields the empty file set and     *)
(* as_version(0) yields exactly {A}.                                       *)
C1_RemoveAfterAdd ==
    (LogIs(0, <<AddLine(PathA)>>) /\ LogIs(1, <<RemoveLine(PathA)>>)) =>
        /\ ResolvedAt(0, 1) => (Resolution(0).err = "none" /\ View(0).files = {})
        /\ ResolvedAt(0, 0) => (Resolution(0).err = "none" /\ View(0).files = {FullPath(PathA)})

(* C2: checkpoint correctness.  With a checkpoint at version 10 that lists *)
(* two files and a log at version 11 that adds a third, as_version(11)     *)
(* succeeds, yields the three files and reads no log file of versions 1..9.*)
C2_CheckpointCorrectness ==
    ( /\ Exists(CheckpointPath(10))
      /\ Cardinality(CheckpointFiles(10)) = 2
      /\ LogIs(11, <<AddLine(PartPath(11))>>)
      /\ ResolvedAt(0, 11) ) =>
        /\ Resolution(0).err = "none"
        /\ View(0).files = CheckpointFiles(10) \cup {FullPath(PartPath(11))}
        /\ \A i \in 1..Len(Resolution(0).logs) : Resolution(0).logs[i] \notin 1..9

(* C3: as_version(v) on a table whose log has a file for version v loads a *)
(* real checkpoint version (a multiple of 10) at or below v and ends with  *)
(* the resolved version equal to v, for every v >= 0.                      *)
C3_ExplicitVersionResolved ==
    \A v \in Targets :
        (CleanLogs /\ LogExists(v) /\ ResolvedAt(0, v)) =>
            /\ Resolution(0).err = "none"
            /\ View(0).checkpoint % CheckpointInterval = 0
            /\ View(0).checkpoint <= v
            /\ View(0).version = v

(* C4: when _last_checkpoint does not exist, DeltaTable(path) does not     *)
(* fail: it takes checkpoint version 0, starts from the empty set, replays *)
(* the logs of versions 0..9 and ends with checkpoint, version and files   *)
(* defined.                                                                *)
C4_PointerAbsentRecovered ==
    (~Exists(LastCheckpointPath) /\ LogExists(0) /\ CleanLogs /\ OpenCalled) =>
        /\ raised.op # "open"
        /\ handles[0] # NullRef
        /\ {"checkpoint", "version", "files"} \subseteq View(0).attrs
        /\ Resolution(0).op = "open" =>
              /\ View(0).checkpoint = 0
              /\ \A i \in 1..Len(Resolution(0).logs) : Resolution(0).logs[i] \in 0..MaxAhead

(* C5: a missing checkpoint file is fatal on every path: a resolution that *)
(* needs the checkpoint file of a non-zero version that is absent fails;   *)
(* it never completes.                                                     *)
C5_MissingCheckpointFatal ==
    \A s \in Slots :
        ( /\ handles[s] # NullRef
          /\ Len(Resolution(s).cps) > 0
          /\ ~Exists(CheckpointPath(Resolution(s).cps[1])) ) =>
            Resolution(s).err # "none"

(* C6: if log entry 0 does not exist at open time, DeltaTable(path) fails  *)
(* and the caller never holds a resolved object.                           *)
C6_NotADeltaTable ==
    (~LogExists(0) /\ OpenCalled) => (handles[0] = NullRef /\ raised.op = "open")

(* C7: after a successful open the resolved version is the highest version *)
(* committed in the log, whenever the pointer names a checkpoint that      *)
(* exists at or below that version.                                        *)
C7_OpenResolvesNewest ==
    ( /\ CleanLogs
      /\ LogExists(0)
      /\ Exists(LastCheckpointPath)
      /\ Exists(CheckpointPath(fs[LastCheckpointPath].version))
      /\ handles[0] # NullRef
      /\ Resolution(0).op = "open" ) =>
        View(0).version = HighestLog

(* C8: as_version(v, inplace=False) returns an object distinct from the    *)
(* one it was called on and leaves that one unchanged; afterwards a call   *)
(* as_version(v, inplace=True) on either object leaves the other unchanged.*)
C8_IndependentModeIsolation ==
    [][ /\ \A v \in SnapshotTargets :
              CallCopy(0, v) => (View(0)' = View(0) /\ handles'[1] # handles'[0])
        /\ \A s \in Slots, v \in SnapshotTargets :
              CallInPlace(s, v) => (View(1 - s)' = View(1 - s)) ]_vars

\* both objects are held, they differ, and each has been resolved on its own
C8_Witness ==
    /\ handles[0] # NullRef /\ handles[1] # NullRef
    /\ Resolution(0).op = "as_version" /\ Resolution(0).err = "none"
    /\ Resolution(1).op = "as_version" /\ Resolution(1).err = "none"
    /\ View(0).files # View(1).files

(* C9: publication.  Every object handed to the caller by a resolution     *)
(* (open, as_version in place, as_version as a copy) has a scan view over  *)
(* exactly its file set.                                                   *)
C9_PublicationInvariant ==
    \A s \in Slots :
        (handles[s] # NullRef /\ Resolution(s).err = "none") =>
            /\ "pyarrow_dataset" \in View(s).attrs
            /\ View(s).pyarrow_dataset = View(s).files

(* C10: in a table with no checkpoint, resolving version 0 yields exactly  *)
(* the paths added by log file 0, each under the table root.               *)
C10_VersionZeroIsLogZero ==
    (NoCheckpoint /\ LogExists(0) /\ CleanLogs /\ OpenCalled) =>
        /\ handles[0] # NullRef
        /\ (ResolvedAt(0, 0) \/ (Resolution(0).op = "open" /\ HighestLog = 0)) =>
              (Resolution(0).err = "none" /\ View(0).files = AddedBy(0))

(* C11: after a successful DeltaTable(path) the resolved version is the    *)
(* highest version among the log files of versions c..c+9, c being the     *)
(* checkpoint version the open took from the pointer; it is c itself when  *)
(* no later log file exists.                                               *)
C11_OpenVersionRoundTrip ==
    (handles[0] # NullRef /\ Resolution(0).op = "open") =>
        LET c == View(0).checkpoint
            found == {v \in c..(c + MaxAhead) : LogExists(v)}
        IN  /\ "version" \in View(0).attrs
            /\ View(0).version \in found
            /\ \A v \in found : v <= View(0).version
            /\ View(0).version >= c

\* an open that found log files after the one of its checkpoint version, in
\* a table whose log goes on past the decade
C11_Witness ==
    /\ handles[0] # NullRef
    /\ Resolution(0).op = "open"
    /\ View(0).checkpoint = CheckpointInterval
    /\ View(0).version = CheckpointInterval + MaxAhead
    /\ LogExists(CheckpointInterval + MaxAhead + 1)

(* C12: monotonicity.  Whenever the log file of version v+1 holds a single *)
(* add, as_version(v+1) succeeds and its file set is the file set that     *)
(* as_version(v) yields plus exactly the added path; for every v, v = 9    *)
(* included.                                                               *)
C12_MonotonicityBoundary ==
    \A v \in Targets :
        ( /\ v + 1 \in Targets
          /\ CleanLogs
          /\ LogExists(v) /\ LogExists(v + 1)
          /\ Len(fs[LogPath(v + 1)].lines) = 1
          /\ fs[LogPath(v + 1)].lines[1].kind = "add"
          /\ ResolvedAt(0, v + 1)
          /\ Resolve(View(0), v).err = "none" ) =>
            LET prior == Resolve(View(0), v).obj.files
            IN  /\ Resolution(0).err = "none"
                /\ View(0).files = prior \cup AddedBy(v + 1)
                /\ Cardinality(View(0).files) = Cardinality(prior) + 1

(* C13: tolerance.  When log 0 adds A and log 1 removes a path whose full  *)
(* path is not in the file set, as_version(1) does not raise and yields    *)
(* the file set of version 0, whatever the removed path is.                *)
C13_RemoveOfAbsentTolerated ==
    \A rel \in {PathB, PathTA, PartPath(1)} :
        ( /\ LogIs(0, <<AddLine(PathA)>>)
          /\ LogIs(1, <<RemoveLine(rel)>>)
          /\ FullPath(rel) \notin {FullPath(PathA)}
          /\ ResolvedAt(0, 1) ) =>
            /\ Resolution(0).err = "none"
            /\ View(0).files = {FullPath(PathA)}

(* C14: idempotence.  When the caller holds a snapshot returned by         *)
(* as_version(v, inplace=False) and, after any other calls, calls          *)
(* as_version(v, inplace=False) again, the call succeeds and the new       *)
(* snapshot has the file set of the one held before.                       *)
C14_IndependentIdempotence ==
    [][ \A v \in SnapshotTargets :
          ( /\ CallCopy(0, v)
            /\ handles[1] # NullRef
            /\ Resolution(1).op = "as_version_copy"
            /\ Resolution(1).version = v ) =>
              /\ raised'.op = "none"
              /\ handles'[1] # handles[1]
              /\ View(1)'.files = View(1).files ]_vars

\* the second snapshot held by the caller is a copy resolved at version 0,
\* taken from an object that has meanwhile been resolved in place elsewhere
C14_Witness ==
    /\ handles[0] # NullRef /\ handles[1] = 2
    /\ Resolution(1).op = "as_version_copy" /\ Resolution(1).version = 0
    /\ Resolution(0).op = "as_version" /\ Resolution(0).version = MaxOffset
    /\ Resolution(0).err = "none"
    /\ View(0).files # View(1).files

\* the log file of version v holds a line that does not decode
HasCorruptLine(v) ==
    LogExists(v) /\ \E i \in 1..Len(fs[LogPath(v)].lines) : fs[LogPath(v)].lines[i].kind = "corrupt"

(* C15: a resolution that reads a log file with a line that does not       *)
(* decode raises; that file is the last one it reads, the lines after the  *)
(* corrupt one are not applied, and the call returns nothing.              *)
C15_CorruptLogEntryAborts ==
    \A rec \in {raised, Resolution(0)} :
        \A i \in 1..Len(rec.logs) :
            HasCorruptLine(rec.logs[i]) =>
                /\ rec.err = "JSONDecodeError"
                /\ raised = rec
                /\ i = Len(rec.logs)
                /\ ( /\ rec.op = "as_version"
                     /\ LogIs(0, <<RemoveLine(PathA)>>)
                     /\ LogIs(1, <<AddLine(PathB), CorruptLine, AddLine(PathA)>>)
                     /\ rec.logs = <<0, 1>> ) => View(0).files = {FullPath(PathB)}

\* as_version(9) has met the corrupt line of log 1 and raised; logs 2..9 are there
C15_Witness ==
    /\ raised.op = "as_version" /\ raised.version = MaxAhead
    /\ raised.err = "JSONDecodeError"
    /\ raised.logs = <<0, 1>>
    /\ LogExists(MaxAhead)
    /\ FullPath(PathA) \notin View(0).files

\* the relative paths live after applying every add and remove of the log
\* files of versions 0..v, in order, to the empty set
RECURSIVE FullReplay(_)
FullReplay(v) ==
    IF v < 0 THEN {}
    ELSE WriterApply(FullReplay(v - 1), fs[LogPath(v)].lines)

\* every checkpoint file lists exactly the files live after versions 0..c
FaithfulCheckpoints ==
    \A c \in CheckpointVersions :
        Exists(CheckpointPath(c)) =>
            CheckpointFiles(c) = {FullPath(rel) : rel \in FullReplay(c)}

(* C16: snapshot equals full replay.  In a table that keeps every log file *)
(* and whose checkpoints are faithful, as_version(v) for a committed       *)
(* version v succeeds and yields the files live after applying the adds    *)
(* and removes of versions 0..v in order to the empty set.                 *)
C16_SnapshotEqualsFullReplay ==
    \A v \in Targets :
        ( /\ CleanLogs
          /\ \A u \in 0..v : LogExists(u)
          /\ FaithfulCheckpoints
          /\ ResolvedAt(0, v) ) =>
            /\ Resolution(0).err = "none"
            /\ View(0).files = {FullPath(rel) : rel \in FullReplay(v)}

\* the version a resolution was asked to reach
TargetOf(rec) ==
    IF rec.op = "open" THEN View(0).checkpoint + MaxAhead ELSE rec.version

(* C17: replay ordering and stop.  A resolution that succeeds has applied  *)
(* exactly the log files of the decade of its checkpoint version up to the *)
(* target, in strictly ascending order; it stops at the file of the target *)
(* version, and when that file is not there it ends without error at the   *)
(* last file of the decade; the resolved version is that of the last file  *)
(* applied.                                                                *)
C17_ReplayOrderingAndStop ==
    (handles[0] # NullRef /\ Resolution(0).op # "none" /\ Resolution(0).err = "none") =>
        LET logs == Resolution(0).logs
            c == View(0).checkpoint
            target == TargetOf(Resolution(0))
        IN  /\ \A i \in 1..(Len(logs) - 1) : logs[i] < logs[i + 1]
            /\ \A i \in 1..Len(logs) :
                  logs[i] \div CheckpointInterval = c \div CheckpointInterval
            /\ \A i \in 1..(Len(logs) - 1) : logs[i] # target
            /\ {logs[i] : i \in 1..Len(logs)} =
                  {u \in 0..MaxVersion :
                      /\ LogExists(u)
                      /\ u \div CheckpointInterval = c \div CheckpointInterval
                      /\ (u <= target \/ ~LogExists(target)
                            \/ target \div CheckpointInterval # c \div CheckpointInterval)}
            /\ Len(logs) > 0 => View(0).version = logs[Len(logs)]

\* as_version(1) has applied logs 0 and 1 and stopped, with later logs in the decade
C17_Witness ==
    /\ handles[0] # NullRef
    /\ Resolution(0).op = "as_version" /\ Resolution(0).version = MaxOffset
    /\ Resolution(0).err = "none"
    /\ Resolution(0).logs = [i \in 1..(MaxOffset + 1) |-> i - 1]
    /\ LogExists(MaxAhead)
    /\ View(0).version = MaxOffset

(* C18: copy-on-success.  A call as_version(v, inplace=True) that raises   *)
(* leaves the object as it was before the call: same file set, resolved    *)
(* version and checkpoint version, and a scan view over that file set.     *)
C18_InPlaceCopyOnSuccess ==
    [][ \A v \in Targets :
          (CallInPlace(0, v) /\ raised'.op # "none") =>
              /\ View(0)'.files = View(0).files
              /\ View(0)'.version = View(0).version
              /\ View(0)'.checkpoint = View(0).checkpoint
              /\ View(0)'.pyarrow_dataset = View(0)'.files ]_vars

(* C19: history independence.  After a successful as_version(v) the        *)
(* resolved version is the version of a log file applied by that call or   *)
(* the checkpoint version of that call, and lies between that checkpoint   *)
(* version and v; it is never a value an earlier resolution left.          *)
C19_HistoryIndependence ==
    \A v \in Targets :
        (ResolvedAt(0, v) /\ Resolution(0).err = "none") =>
            LET logs == Resolution(0).logs
            IN  /\ View(0).version \in {logs[i] : i \in 1..Len(logs)} \cup {View(0).checkpoint}
                /\ View(0).checkpoint <= View(0).version
                /\ View(0).version <= v

====
